---- MODULE Spec2Model ----
(***************************************************************************)
(* A model of the Labspace Generator: its backend (src/src/server.js),     *)
(* RepositoryAnalyzer (POST /api/analyze) and LabspaceGenerator            *)
(* (POST /api/generate), and its page (src/src/App.jsx).                   *)
(*                                                                         *)
(* Three specifications share the variables of the module:                 *)
(*   Spec          the two API routes, handling a request each;            *)
(*   EstimateSpec  RepositoryAnalyzer.estimateSetupTime applied to lists   *)
(*                 of any length up to MaxEntries;                         *)
(*   UiSpec        the page, its clicks and the fetches they start         *)
(*                 (FairUiSpec: the same, every fetch settling).           *)
(* Each leaves the variables of the others at their initial values.        *)
(*                                                                         *)
(* Text is modelled character by character: a JavaScript string is a       *)
(* sequence of one-character strings, so that String.prototype.includes,   *)
(* endsWith, split and the regular expressions of the source are computed  *)
(* the way the source computes them.                                       *)
(*                                                                         *)
(* Library calls outside the repository (axios, archiver, yaml, JSON) are  *)
(* modelled at their call sites: an axios request either resolves or       *)
(* rejects, JSON.parse is a table over the manifest texts of the model,    *)
(* and the YAML/JSON serialisers and the archiver are taken to succeed, so *)
(* a generated document is modelled by the object that is serialised.      *)
(***************************************************************************)
EXTENDS Integers, Sequences, FiniteSets, TLC

(***************************************************************************)
(* Bounds of the model.                                                    *)
(***************************************************************************)
\* Largest number of files in the repository the analyzer is pointed at.
MaxFiles == 2
\* Longest tech stack of a profile posted directly to /api/generate.
MaxStackLen == 2
\* Longest service list of a profile posted directly to /api/generate.
MaxServices == 2

(***************************************************************************)
(* String literals of the source.                                          *)
(***************************************************************************)
s_package_json == <<"p", "a", "c", "k", "a", "g", "e", ".", "j", "s", "o", "n">>
s_requirements_txt == <<"r", "e", "q", "u", "i", "r", "e", "m", "e", "n", "t", "s", ".", "t", "x", "t">>
s_Gemfile == <<"G", "e", "m", "f", "i", "l", "e">>
s_go_mod == <<"g", "o", ".", "m", "o", "d">>
s_pom_xml == <<"p", "o", "m", ".", "x", "m", "l">>
s_build_gradle == <<"b", "u", "i", "l", "d", ".", "g", "r", "a", "d", "l", "e">>
s_Cargo_toml == <<"C", "a", "r", "g", "o", ".", "t", "o", "m", "l">>
s_composer_json == <<"c", "o", "m", "p", "o", "s", "e", "r", ".", "j", "s", "o", "n">>
s_pubspec_yaml == <<"p", "u", "b", "s", "p", "e", "c", ".", "y", "a", "m", "l">>
s_Dockerfile == <<"D", "o", "c", "k", "e", "r", "f", "i", "l", "e">>
s_dot_git == <<".", "g", "i", "t">>
s_dot_php == <<".", "p", "h", "p">>
s_database == <<"d", "a", "t", "a", "b", "a", "s", "e">>
s_db == <<"d", "b">>
s_migration == <<"m", "i", "g", "r", "a", "t", "i", "o", "n">>
s_redis == <<"r", "e", "d", "i", "s">>
s_server == <<"s", "e", "r", "v", "e", "r">>
s_app == <<"a", "p", "p">>
s_index_js == <<"i", "n", "d", "e", "x", ".", "j", "s">>
s_main_py == <<"m", "a", "i", "n", ".", "p", "y">>
s_app_py == <<"a", "p", "p", ".", "p", "y">>
s_test == <<"t", "e", "s", "t">>
s_github_com == <<"g", "i", "t", "h", "u", "b", ".", "c", "o", "m", "/">>
s_go_space == <<"g", "o", " ">>
s_ruby_space == <<"r", "u", "b", "y", " ">>
s_eqeq == <<"=", "=">>
s_gteq == <<">", "=">>
s_slash == <<"/">>
v_node_default == <<">", "=", "1", "6", ".", "0", ".", "0">>
v_latest == <<"l", "a", "t", "e", "s", "t">>

(***************************************************************************)
(* The inputs of the model: repository paths, repository references and    *)
(* manifest texts.                                                         *)
(***************************************************************************)
p_git_config == <<".", "g", "i", "t", "/", "c", "o", "n", "f", "i", "g">>
p_Program_cs == <<"P", "r", "o", "g", "r", "a", "m", ".", "c", "s">>
p_README_md == <<"R", "E", "A", "D", "M", "E", ".", "m", "d">>
p_deep == <<"a", "/", "b", "/", "c", "/", "d", "/", "e", ".", "t", "x", "t">>
p_a_b_c_f_txt == <<"a", "/", "b", "/", "c", "/", "f", ".", "t", "x", "t">>
p_app_db_redis_js == <<"a", "p", "p", "/", "d", "b", "/", "r", "e", "d", "i", "s", ".", "j", "s">>
p_cmd_server_main_go == <<"c", "m", "d", "/", "s", "e", "r", "v", "e", "r", "/", "m", "a", "i", "n", ".", "g", "o">>
p_db_schema_sql == <<"d", "b", "/", "s", "c", "h", "e", "m", "a", ".", "s", "q", "l">>
p_index_php == <<"i", "n", "d", "e", "x", ".", "p", "h", "p">>
p_redis_conf == <<"r", "e", "d", "i", "s", ".", "c", "o", "n", "f">>
p_tests_unit_txt == <<"t", "e", "s", "t", "s", "/", "u", "n", "i", "t", ".", "t", "x", "t">>
u_plain == <<"h", "t", "t", "p", "s", ":", "/", "/", "g", "i", "t", "h", "u", "b", ".", "c", "o", "m", "/", "o", "/", "r">>
u_dotgit == <<"g", "i", "t", "h", "u", "b", ".", "c", "o", "m", "/", "o", "/", "r", ".", "g", "i", "t">>
u_query == <<"g", "i", "t", "h", "u", "b", ".", "c", "o", "m", "/", "o", "/", "r", "?", "t", "a", "b", "=", "x">>
u_gitlab == <<"h", "t", "t", "p", "s", ":", "/", "/", "g", "i", "t", "l", "a", "b", ".", "c", "o", "m", "/", "o", "/", "r">>
u_owner_only == <<"g", "i", "t", "h", "u", "b", ".", "c", "o", "m", "/", "o">>
u_empty_owner == <<"g", "i", "t", "h", "u", "b", ".", "c", "o", "m", "/", "/", "r">>
u_blank == <<>>
t_pkg_express == <<"{", "\"", "d", "e", "p", "e", "n", "d", "e", "n", "c", "i", "e", "s", "\"", ":", "{", "\"", "e", "x", "p", "r", "e", "s", "s", "\"", ":", "\"", "^", "4", "\"", "}", "}">>
t_pkg_full == <<"{", "\"", "e", "n", "g", "i", "n", "e", "s", "\"", ":", "{", "\"", "n", "o", "d", "e", "\"", ":", "\"", ">", "=", "1", "8", "\"", "}", ",", "\"", "d", "e", "p", "e", "n", "d", "e", "n", "c", "i", "e", "s", "\"", ":", "{", "\"", "e", "x", "p", "r", "e", "s", "s", "\"", ":", "\"", "^", "4", "\"", ",", "\"", "p", "g", "\"", ":", "\"", "^", "8", "\"", "}", ",", "\"", "d", "e", "v", "D", "e", "p", "e", "n", "d", "e", "n", "c", "i", "e", "s", "\"", ":", "{", "\"", "j", "e", "s", "t", "\"", ":", "\"", "^", "2", "9", "\"", "}", ",", "\"", "s", "c", "r", "i", "p", "t", "s", "\"", ":", "{", "\"", "d", "e", "v", "\"", ":", "\"", "n", "o", "d", "e", " ", "i", "n", "d", "e", "x", ".", "j", "s", "\"", "}", "}">>
t_pkg_bad == <<"{", "\"", "d", "e", "p", "e", "n", "d", "e", "n", "c", "i", "e", "s", "\"", ":">>
t_pkg_null == <<"n", "u", "l", "l">>
t_req == <<"f", "l", "a", "s", "k", "=", "=", "2", ".", "0", "\n", "#", " ", "c", "a", "c", "h", "e", "\n", "\n", "r", "e", "d", "i", "s", ">", "=", "4", "\n">>
t_gomod == <<"m", "o", "d", "u", "l", "e", " ", "m", "\n", "\n", "g", "o", " ", "1", ".", "2", "1", "\n">>
t_gomod_nover == <<"m", "o", "d", "u", "l", "e", " ", "m", "\n">>
t_gemfile == <<"s", "o", "u", "r", "c", "e", " ", "'", "x", "'", "\n", "r", "u", "b", "y", " ", "\"", "3", ".", "2", "\"", "\n">>
t_gemfile_nover == <<"g", "e", "m", " ", "'", "r", "a", "i", "l", "s", "'", "\n">>
t_some == <<"x">>
t_empty == <<>>
\* A package.json with nine dependencies and six devDependencies, and a
\* requirements.txt with eleven requirements.
t_pkg_many == <<"{", "\"", "d", "e", "p", "e", "n", "d", "e", "n", "c", "i",
  "e", "s", "\"", ":", "{", "\"", "a", "\"", ":", "\"", "1", "\"", ",", "\"",
  "b", "\"", ":", "\"", "1", "\"", ",", "\"", "c", "\"", ":", "\"", "1",
  "\"", ",", "\"", "d", "\"", ":", "\"", "1", "\"", ",", "\"", "e", "\"",
  ":", "\"", "1", "\"", ",", "\"", "f", "\"", ":", "\"", "1", "\"", ",",
  "\"", "g", "\"", ":", "\"", "1", "\"", ",", "\"", "h", "\"", ":", "\"",
  "1", "\"", ",", "\"", "i", "\"", ":", "\"", "1", "\"", "}", ",", "\"", "d",
  "e", "v", "D", "e", "p", "e", "n", "d", "e", "n", "c", "i", "e", "s", "\"",
  ":", "{", "\"", "j", "\"", ":", "\"", "1", "\"", ",", "\"", "k", "\"", ":",
  "\"", "1", "\"", ",", "\"", "l", "\"", ":", "\"", "1", "\"", ",", "\"",
  "m", "\"", ":", "\"", "1", "\"", ",", "\"", "n", "\"", ":", "\"", "1",
  "\"", ",", "\"", "o", "\"", ":", "\"", "1", "\"", "}", "}">>
t_req_many == <<"a", "=", "=", "1", "\n", "b", ">", "=", "2", "\n", "c",
  "\n", "d", "\n", "e", "\n", "f", "\n", "g", "\n", "h", "\n", "i", "\n",
  "j", "\n", "k", "\n">>
k_express == <<"e", "x", "p", "r", "e", "s", "s">>
k_pg == <<"p", "g">>
k_jest == <<"j", "e", "s", "t">>
v_node18 == <<">", "=", "1", "8">>

\* JavaScript's undefined, where the source expects a string.
undefined == <<"undefined">>

(***************************************************************************)
(* String operations of the source.                                        *)
(***************************************************************************)
\* t occurs in s at position i.
StartsAt(s, t, i) ==
  /\ i >= 1
  /\ i + Len(t) - 1 <= Len(s)
  /\ SubSeq(s, i, i + Len(t) - 1) = t

\* String.prototype.includes
includes(s, t) == \E i \in 1..(Len(s) - Len(t) + 1) : StartsAt(s, t, i)

\* String.prototype.endsWith
endsWith(s, t) ==
  /\ Len(t) <= Len(s)
  /\ SubSeq(s, Len(s) - Len(t) + 1, Len(s)) = t

\* The position after the longest run of characters outside `stop` that
\* starts at position i (a greedy negated character class, [^...]*).
RunEnd(s, i, stop) ==
  CHOOSE j \in i..(Len(s) + 1) :
    /\ (j = Len(s) + 1 \/ s[j] \in stop)
    /\ \A k \in i..(j - 1) : s[k] \notin stop

\* The position of the first occurrence of t in s at or after i, 0 if none.
IndexFrom(s, t, i) ==
  LET hits == {j \in i..(Len(s) - Len(t) + 1) : StartsAt(s, t, j)}
  IN  IF hits = {} THEN 0 ELSE CHOOSE j \in hits : \A k \in hits : j <= k

\* path.split('/').length
SplitLength(path) == Cardinality({i \in 1..Len(path) : path[i] = "/"}) + 1

\* String.prototype.trim (spaces, tabs and line ends).
Blank == {" ", "\t", "\n", "\r"}
RECURSIVE trimStart(_)
trimStart(s) ==
  IF s # <<>> /\ Head(s) \in Blank THEN trimStart(Tail(s)) ELSE s
RECURSIVE trimEnd(_)
trimEnd(s) ==
  IF s # <<>> /\ s[Len(s)] \in Blank THEN trimEnd(SubSeq(s, 1, Len(s) - 1)) ELSE s
trim(s) == trimEnd(trimStart(s))

\* s.split(sep), for a non-empty separator.
RECURSIVE split(_, _)
split(s, sep) ==
  LET i == IndexFrom(s, sep, 1)
  IN  IF i = 0 THEN <<s>>
      ELSE <<SubSeq(s, 1, i - 1)>> \o split(SubSeq(s, i + Len(sep), Len(s)), sep)

(***************************************************************************)
(* RepositoryAnalyzer.parseGithubUrl: url.match of                         *)
(* /github\.com\/([^\/]+)\/([^\/\?]+)/, then repo.replace(/\.git$/, '').   *)
(* The result says whether the call threw.                                 *)
(***************************************************************************)
\* The regular expression matches at position i of url.
GithubMatchAt(url, i) ==
  /\ StartsAt(url, s_github_com, i)
  /\ LET o  == i + Len(s_github_com)
         oe == RunEnd(url, o, {"/"})
     IN  /\ oe > o
         /\ oe <= Len(url)
         /\ RunEnd(url, oe + 1, {"/", "?"}) > oe + 1

\* parseGithubUrl without its throw: every reference is taken to parse.
parseGithubUrlLenient(url) ==
  [threw |-> FALSE, message |-> "", owner |-> <<>>, repo |-> <<>>]

parseGithubUrl(url) ==
  IF url = undefined
  THEN [threw |-> TRUE, message |-> "TypeError", owner |-> <<>>, repo |-> <<>>]
  ELSE LET starts == {i \in 1..Len(url) : GithubMatchAt(url, i)}
       IN  IF starts = {}
           THEN [threw |-> TRUE, message |-> "Invalid GitHub URL",
                 owner |-> <<>>, repo |-> <<>>]
           ELSE LET i    == CHOOSE j \in starts : \A k \in starts : j <= k
                    o    == i + Len(s_github_com)
                    oe   == RunEnd(url, o, {"/"})
                    re   == RunEnd(url, oe + 1, {"/", "?"})
                    repo == SubSeq(url, oe + 1, re - 1)
                IN  [threw |-> FALSE, message |-> "",
                     owner |-> SubSeq(url, o, oe - 1),
                     repo  |-> IF endsWith(repo, s_dot_git)
                               THEN SubSeq(repo, 1, Len(repo) - Len(s_dot_git))
                               ELSE repo]

(***************************************************************************)
(* The repository host.  A repository is the set of its file paths; the    *)
(* contents API answers a directory with its entries sorted by name, which *)
(* is the order of CatalogPaths.                                           *)
(***************************************************************************)
CatalogPaths ==
  << p_git_config, s_Cargo_toml, s_Dockerfile, s_Gemfile, p_Program_cs,
     p_README_md, p_deep, p_a_b_c_f_txt, p_app_db_redis_js, s_build_gradle,
     p_cmd_server_main_go,
     s_composer_json, p_db_schema_sql, s_go_mod, s_index_js, p_index_php,
     s_package_json, s_pom_xml, s_pubspec_yaml, p_redis_conf,
     s_requirements_txt, p_tests_unit_txt >>

Range(q) == {q[i] : i \in DOMAIN q}

RECURSIVE SubsetsUpTo(_, _)
SubsetsUpTo(S, k) ==
  IF k = 0 THEN {{}}
  ELSE LET prev == SubsetsUpTo(S, k - 1)
       IN  prev \cup {t \cup {x} : t \in prev, x \in S}

Trees == SubsetsUpTo(Range(CatalogPaths), MaxFiles)

\* File f of the repository lies below directory d ('' is the root).
Under(f, d) ==
  IF d = <<>> THEN TRUE
  ELSE StartsAt(f, d \o s_slash, 1) /\ Len(f) > Len(d) + 1

\* The entry of directory d that file f is, or lies below.
ItemOf(f, d) ==
  LET pre  == IF d = <<>> THEN <<>> ELSE d \o s_slash
      e    == RunEnd(f, Len(pre) + 1, {"/"})
      name == SubSeq(f, Len(pre) + 1, e - 1)
  IN  [type |-> IF e > Len(f) THEN "file" ELSE "dir",
       name |-> name, path |-> pre \o name]

\* response.data of GET /repos/:owner/:repo/contents/:d, from entry i on.
RECURSIVE contents(_, _, _)
contents(t, d, i) ==
  IF i > Len(CatalogPaths) THEN <<>>
  ELSE LET f    == CatalogPaths[i]
           rest == contents(t, d, i + 1)
       IN  IF f \in t /\ Under(f, d)
           THEN LET it == ItemOf(f, d)
                IN  IF rest # <<>> /\ Head(rest) = it THEN rest
                    ELSE <<it>> \o rest
           ELSE rest

(***************************************************************************)
(* RepositoryAnalyzer.fetchFileStructure, with every request resolving:    *)
(* the listing, and the directories requested, in request order.           *)
(***************************************************************************)
DepthLimit == 3

RECURSIVE fetchFileStructure(_, _)
RECURSIVE walkItems(_, _, _)
fetchFileStructure(t, path) ==
  LET r == walkItems(t, path, contents(t, path, 1))
  IN  [files |-> r.files, requests |-> <<path>> \o r.requests]

\* walkItems descending into every directory, whatever its depth.
walkItemsAnyDepth(t, path, items) ==
  IF items = <<>> THEN [files |-> <<>>, requests |-> <<>>]
  ELSE LET item == Head(items)
           rest == walkItems(t, path, Tail(items))
       IN  IF item.type = "file"
           THEN [files    |-> <<[path |-> item.path, name |-> item.name]>>
                                \o rest.files,
                 requests |-> rest.requests]
           ELSE IF item.type = "dir" /\ item.name # s_dot_git
                THEN LET sub == fetchFileStructure(t, item.path)
                     IN  [files    |-> sub.files \o rest.files,
                          requests |-> sub.requests \o rest.requests]
                ELSE rest

walkItems(t, path, items) ==
  IF items = <<>> THEN [files |-> <<>>, requests |-> <<>>]
  ELSE LET item == Head(items)
           rest == walkItems(t, path, Tail(items))
       IN  IF item.type = "file"
           THEN [files    |-> <<[path |-> item.path, name |-> item.name]>>
                                \o rest.files,
                 requests |-> rest.requests]
           ELSE IF /\ item.type = "dir"
                   /\ item.name # s_dot_git
                   /\ SplitLength(path) < DepthLimit
                THEN LET sub == fetchFileStructure(t, item.path)
                     IN  [files    |-> sub.files \o rest.files,
                          requests |-> sub.requests \o rest.requests]
                ELSE rest

(***************************************************************************)
(* Manifest texts the host can hold, and what fetching one can yield.      *)
(***************************************************************************)
keyFiles ==
  << s_package_json, s_requirements_txt, s_Gemfile, s_go_mod, s_pom_xml,
     s_build_gradle, s_Cargo_toml, s_composer_json, s_pubspec_yaml >>

Texts(fileName) ==
  CASE fileName = s_package_json ->
         {t_pkg_express, t_pkg_full, t_pkg_many, t_pkg_bad, t_pkg_null,
          t_empty}
    [] fileName = s_requirements_txt -> {t_req, t_req_many, t_empty}
    [] fileName = s_go_mod -> {t_gomod, t_gomod_nover}
    [] fileName = s_Gemfile -> {t_gemfile, t_gemfile_nover}
    [] OTHER -> {t_some, t_empty}

\* RepositoryAnalyzer.fetchFileContent: the request rejects, or resolves to
\* the decoded text.
FetchOutcomes(fileName) ==
  {[ok |-> FALSE, text |-> <<>>]}
    \cup {[ok |-> TRUE, text |-> t] : t \in Texts(fileName)}

\* JSON.parse on the package.json texts of the model: the parsed value with
\* the keys of its objects in text order, null, or a SyntaxError.
JSONparse(text) ==
  CASE text = t_pkg_express ->
         [tag |-> "object", engines_node |-> undefined,
          dependencies |-> <<k_express>>, devDependencies |-> <<>>,
          scripts |-> <<>>]
    [] text = t_pkg_full ->
         [tag |-> "object", engines_node |-> v_node18,
          dependencies |-> <<k_express, k_pg>>, devDependencies |-> <<k_jest>>,
          scripts |-> <<"dev">>]
    [] text = t_pkg_many ->
         [tag |-> "object", engines_node |-> undefined,
          dependencies |-> <<<<"a">>, <<"b">>, <<"c">>, <<"d">>, <<"e">>,
                             <<"f">>, <<"g">>, <<"h">>, <<"i">>>>,
          devDependencies |-> <<<<"j">>, <<"k">>, <<"l">>, <<"m">>, <<"n">>,
                                <<"o">>>>,
          scripts |-> <<>>]
    [] text = t_pkg_null ->
         [tag |-> "null", engines_node |-> undefined, dependencies |-> <<>>,
          devDependencies |-> <<>>, scripts |-> <<>>]
    [] OTHER ->
         [tag |-> "SyntaxError", engines_node |-> undefined,
          dependencies |-> <<>>, devDependencies |-> <<>>, scripts |-> <<>>]

\* Array.prototype.slice(0, n)
slice0(q, n) == SubSeq(q, 1, IF Len(q) < n THEN Len(q) ELSE n)

\* configFiles[fileName] is truthy: fetched, and not the empty string.
truthy(configFiles, fileName) ==
  fileName \in DOMAIN configFiles /\ configFiles[fileName] # <<>>

Digits == {"0", "1", "2", "3", "4", "5", "6", "7", "8", "9"}
Quotes == {"'", "\""}

\* The position after the longest run of characters of `set` from i on.
RunWhile(s, i, set) ==
  CHOOSE j \in i..(Len(s) + 1) :
    /\ (j = Len(s) + 1 \/ s[j] \notin set)
    /\ \A k \in i..(j - 1) : s[k] \in set

\* The Go version without the match on the text of go.mod.
goVersionUnread(text) == v_latest

\* goModContent.match(/go (\d+\.\d+)/)?.[1] || 'latest'
goVersion(text) ==
  LET ok(i) == /\ StartsAt(text, s_go_space, i)
               /\ LET a == i + Len(s_go_space)
                      b == RunWhile(text, a, Digits)
                  IN  /\ b > a
                      /\ b <= Len(text)
                      /\ text[b] = "."
                      /\ RunWhile(text, b + 1, Digits) > b + 1
      starts == {i \in 1..Len(text) : ok(i)}
  IN  IF starts = {} THEN v_latest
      ELSE LET i == CHOOSE j \in starts : \A k \in starts : j <= k
               a == i + Len(s_go_space)
               b == RunWhile(text, a, Digits)
           IN  SubSeq(text, a, RunWhile(text, b + 1, Digits) - 1)

\* configFiles['Gemfile'].match(/ruby ['"](.+?)['"]/)?.[1] || 'latest'
rubyVersion(text) ==
  LET a(i) == i + Len(s_ruby_space) + 1
      \* the lengths n of a capture that starts at a(i)
      caps(i) == {n \in 1..(Len(text) - a(i)) :
                    /\ \A k \in a(i)..(a(i) + n - 1) : text[k] # "\n"
                    /\ text[a(i) + n] \in Quotes}
      ok(i) == /\ StartsAt(text, s_ruby_space, i)
               /\ a(i) - 1 <= Len(text)
               /\ text[a(i) - 1] \in Quotes
               /\ caps(i) # {}
      starts == {i \in 1..Len(text) : ok(i)}
  IN  IF starts = {} THEN v_latest
      ELSE LET i == CHOOSE j \in starts : \A k \in starts : j <= k
               n == CHOOSE m \in caps(i) : \A k \in caps(i) : m <= k
           IN  SubSeq(text, a(i), a(i) + n - 1)

\* The dependencies of the Python entry, from the text of requirements.txt.
RequirementsLimit == 10
pythonDependencies(text) ==
  LET keep(line) == trim(line) # <<>> /\ ~StartsAt(line, <<"#">>, 1)
      requirements == slice0(SelectSeq(split(text, <<"\n">>), keep),
                             RequirementsLimit)
  IN  [i \in 1..Len(requirements) |->
         trim(Head(split(Head(split(requirements[i], s_eqeq)), s_gteq)))]

Opt(cond, entry) == IF cond THEN <<entry>> ELSE <<>>

DepsLimit == 8
DevDepsLimit == 5

\* The Node.js entry without the keys of packageJson.dependencies.
nodeEntryNoDependencies(packageJson) ==
  [name |-> "Node.js",
   version |-> IF packageJson.engines_node # undefined
               THEN packageJson.engines_node ELSE v_node_default,
   dependencies |-> <<>>,
   devDependencies |-> slice0(packageJson.devDependencies, DevDepsLimit),
   scripts |-> packageJson.scripts]

nodeEntry(packageJson) ==
  [name |-> "Node.js",
   version |-> IF packageJson.engines_node # undefined
               THEN packageJson.engines_node ELSE v_node_default,
   dependencies |-> slice0(packageJson.dependencies, DepsLimit),
   devDependencies |-> slice0(packageJson.devDependencies, DevDepsLimit),
   scripts |-> packageJson.scripts]

pythonPart(files, configFiles) ==
  Opt(truthy(configFiles, s_requirements_txt),
      [name |-> "Python", version |-> <<"3", ".", "9", "+">>,
       dependencies |-> pythonDependencies(configFiles[s_requirements_txt])])

goPart(files, configFiles) ==
  Opt(truthy(configFiles, s_go_mod),
      [name |-> "Go", version |-> goVersion(configFiles[s_go_mod])])

javaPart(files, configFiles) ==
  Opt(truthy(configFiles, s_pom_xml) \/ truthy(configFiles, s_build_gradle),
      [name |-> "Java", version |-> <<"1", "1", "+">>,
       buildTool |-> IF truthy(configFiles, s_pom_xml)
                     THEN "Maven" ELSE "Gradle"])

rubyPart(files, configFiles) ==
  Opt(truthy(configFiles, s_Gemfile),
      [name |-> "Ruby", version |-> rubyVersion(configFiles[s_Gemfile])])

rustPart(files, configFiles) ==
  Opt(truthy(configFiles, s_Cargo_toml),
      [name |-> "Rust", version |-> v_latest])

phpPart(files, configFiles) ==
  Opt(\/ truthy(configFiles, s_composer_json)
      \/ \E i \in DOMAIN files : endsWith(files[i].path, s_dot_php),
      [name |-> "PHP", version |-> <<"8", ".", "1", "+">>])

dartPart(files, configFiles) ==
  Opt(truthy(configFiles, s_pubspec_yaml),
      [name |-> "Dart/Flutter", version |-> v_latest])

\* The Docker detection without its test of the listing.
dockerPartAlways(files, configFiles) ==
  <<[name |-> "Docker", version |-> v_latest]>>

dockerPart(files, configFiles) ==
  Opt(\E i \in DOMAIN files : files[i].path = s_Dockerfile,
      [name |-> "Docker", version |-> v_latest])

\* The detections of detectTechStack after package.json's, in the order of
\* App.jsx's helper of the same name, which the backend does not follow; Dart/Flutter trails.
restOfStackAppOrder(files, configFiles) ==
  pythonPart(files, configFiles) \o dockerPart(files, configFiles)
    \o javaPart(files, configFiles) \o goPart(files, configFiles)
    \o rubyPart(files, configFiles) \o phpPart(files, configFiles)
    \o rustPart(files, configFiles) \o dartPart(files, configFiles)

\* The detections of detectTechStack after package.json's, in source order.
restOfStack(files, configFiles) ==
  pythonPart(files, configFiles) \o goPart(files, configFiles)
    \o javaPart(files, configFiles) \o rubyPart(files, configFiles)
    \o rustPart(files, configFiles) \o phpPart(files, configFiles)
    \o dartPart(files, configFiles) \o dockerPart(files, configFiles)

(***************************************************************************)
(* RepositoryAnalyzer.detectTechStack.  `outcome` gives, for each key file *)
(* of the listing, what fetching it yields.  The result carries the        *)
(* requests issued and the warnings logged, and says whether the call      *)
(* threw (JSON.parse on a malformed text, a property read on null).        *)
(***************************************************************************)
presentKeyFiles(files) ==
  {k \in Range(keyFiles) : \E i \in DOMAIN files : files[i].path = k}

detectTechStack(files, outcome) ==
  LET present     == presentKeyFiles(files)
      fetched     == {k \in present : outcome[k].ok}
      configFiles == [k \in fetched |-> outcome[k].text]
      packageJson == JSONparse(configFiles[s_package_json])
      log == [requests    |-> SelectSeq(keyFiles, LAMBDA k : k \in present),
              warnings    |-> SelectSeq(keyFiles,
                                        LAMBDA k : k \in present \ fetched),
              configFiles |-> configFiles]
  IN  IF truthy(configFiles, s_package_json) /\ packageJson.tag # "object"
      THEN log @@ [threw |-> TRUE,
                   message |-> IF packageJson.tag = "null"
                               THEN "TypeError" ELSE "SyntaxError",
                   techStack |-> <<>>]
      ELSE log @@ [threw |-> FALSE, message |-> "",
                   techStack |->
                     Opt(truthy(configFiles, s_package_json),
                         nodeEntry(packageJson))
                       \o restOfStack(files, configFiles)]

(***************************************************************************)
(* RepositoryAnalyzer.detectServices, extractPorts, estimateSetupTime.     *)
(***************************************************************************)
some(files, P(_)) == \E i \in DOMAIN files : P(files[i])

DatabasePort == 5432
RedisPort == 6379
WebPort == 3000

\* detectServices looking for the web server first.
detectServicesWebFirst(files) ==
  LET hasDatabase == some(files, LAMBDA f : \/ includes(f.path, s_database)
                                            \/ includes(f.path, s_db)
                                            \/ includes(f.path, s_migration))
      hasRedis == some(files, LAMBDA f : includes(f.path, s_redis))
      hasWeb == some(files, LAMBDA f : \/ includes(f.path, s_server)
                                       \/ includes(f.path, s_app)
                                       \/ f.name = s_index_js
                                       \/ f.name = s_main_py
                                       \/ f.name = s_app_py)
  IN  Opt(hasWeb,
          [name |-> "Web Server", type |-> "web", port |-> WebPort])
        \o Opt(hasDatabase,
          [name |-> "Database", type |-> "postgres", port |-> DatabasePort])
        \o Opt(hasRedis,
          [name |-> "Redis", type |-> "redis", port |-> RedisPort])

detectServices(files) ==
  LET hasDatabase == some(files, LAMBDA f : \/ includes(f.path, s_database)
                                            \/ includes(f.path, s_db)
                                            \/ includes(f.path, s_migration))
      hasRedis == some(files, LAMBDA f : includes(f.path, s_redis))
      hasWeb == some(files, LAMBDA f : \/ includes(f.path, s_server)
                                       \/ includes(f.path, s_app)
                                       \/ f.name = s_index_js
                                       \/ f.name = s_main_py
                                       \/ f.name = s_app_py)
  IN  Opt(hasDatabase,
          [name |-> "Database", type |-> "postgres", port |-> DatabasePort])
        \o Opt(hasRedis,
          [name |-> "Redis", type |-> "redis", port |-> RedisPort])
        \o Opt(hasWeb,
          [name |-> "Web Server", type |-> "web", port |-> WebPort])

extractPorts(services) == [i \in 1..Len(services) |-> services[i].port]

\* estimateSetupTime taking a minute off per service.
estimateSetupTimeLessPerService(techStack, services) ==
  LET halfMinutes == 2 + Len(techStack) - 2 * Len(services)
  IN  IF halfMinutes < 4 THEN "1-2 minutes"
      ELSE IF halfMinutes < 10 THEN "2-5 minutes"
      ELSE IF halfMinutes < 20 THEN "5-10 minutes"
      ELSE "10+ minutes"

\* minutes = 1 + 0.5 * techStack.length + services.length, counted in half
\* minutes so that the arithmetic stays in the integers.
estimateSetupTime(techStack, services) ==
  LET halfMinutes == 2 + Len(techStack) + 2 * Len(services)
  IN  IF halfMinutes < 4 THEN "1-2 minutes"
      ELSE IF halfMinutes < 10 THEN "2-5 minutes"
      ELSE IF halfMinutes < 20 THEN "5-10 minutes"
      ELSE "10+ minutes"

\* The profile analyzeRepository returns.
profileOf(handle, files, techStack, services) ==
  [owner |-> handle.owner,
   name |-> handle.repo,
   description |-> "description",
   files |-> [i \in 1..Len(files) |-> files[i].path],
   techStack |-> techStack,
   services |-> services,
   ports |-> extractPorts(services),
   hasDocker |-> some(files, LAMBDA f : f.path = s_Dockerfile),
   hasTests |-> some(files, LAMBDA f : includes(f.path, s_test)),
   estimatedSetupTime |-> estimateSetupTime(techStack, services)]

(***************************************************************************)
(* LabspaceGenerator.  A generated document is modelled by the object the  *)
(* source serialises (or, for the two text templates, by the values it     *)
(* interpolates); the 'Generated:' date of the compose header is left out. *)
(***************************************************************************)
DefaultAppPort == 3000

\* services.find(s => s.type === 'web')?.port || 3000
appPort(services) ==
  LET webs == SelectSeq(services, LAMBDA s : s.type = "web")
  IN  IF webs # <<>> /\ Head(webs).port # 0 THEN Head(webs).port
      ELSE DefaultAppPort

hasService(services, name) == \E i \in DOMAIN services : services[i].name = name

\* The compose object: its services in insertion order, each with its key,
\* and the keys of the root volumes entry (none when the entry is absent).
generateDockerCompose(repoData) ==
  LET techStack == repoData.techStack
      services  == repoData.services
      hasApp    == techStack # <<>>
      hasDb     == hasService(services, "Database")
      hasRedis  == hasService(services, "Redis")
  IN  [repository |-> repoData.name,
       version |-> "3.8",
       services |->
         Opt(hasApp,
             [key |-> "app", build |-> ".",
              ports |-> <<[host |-> appPort(services),
                           container |-> appPort(services)]>>,
              volumes |-> <<".:/workspace">>,
              environment |-> <<"NODE_ENV=development">>,
              depends_on |-> Opt(hasDb, "db") \o Opt(hasRedis, "redis")])
         \o Opt(hasDb,
             [key |-> "db", image |-> "postgres:13",
              environment |-> <<"POSTGRES_DB=appdb", "POSTGRES_USER=user",
                                "POSTGRES_PASSWORD=password">>,
              ports |-> <<[host |-> 5432, container |-> 5432]>>,
              volumes |-> <<"db_data:/var/lib/postgresql/data">>])
         \o Opt(hasRedis,
             [key |-> "redis", image |-> "redis:6-alpine",
              ports |-> <<[host |-> 6379, container |-> 6379]>>]),
       volumes |-> Opt(hasDb, "db_data")]

\* techStack.forEach with a switch on tech.name that pushes to an array.
RECURSIVE concat(_)
concat(arrays) ==
  IF arrays = <<>> THEN <<>> ELSE Head(arrays) \o concat(Tail(arrays))

pushEach(techStack, pushed(_)) ==
  concat([i \in 1..Len(techStack) |-> pushed(techStack[i].name)])

getRecommendedExtensions(techStack) ==
  <<"ms-vscode.vscode-json">> \o
  pushEach(techStack, LAMBDA name :
    CASE name = "Node.js" -> <<"ms-vscode.vscode-typescript-next",
                               "esbenp.prettier-vscode">>
      [] name = "Python"  -> <<"ms-python.python">>
      [] name = "Go"      -> <<"golang.go">>
      [] name = "Docker"  -> <<"ms-azuretools.vscode-docker">>
      [] OTHER            -> <<>>)

\* The commands that commands.join(' && ') joins.
getPostCreateCommand(techStack) ==
  pushEach(techStack, LAMBDA name :
    CASE name = "Node.js" -> <<"npm install">>
      [] name = "Python"  -> <<"pip install -r requirements.txt">>
      [] name = "Go"      -> <<"go mod tidy">>
      [] OTHER            -> <<>>)

\* generateDevContainer forwarding the application port alone.
generateDevContainerWebOnly(repoData) ==
  [name |-> repoData.name,
   dockerComposeFile |-> "../docker-compose.yml",
   service |-> "app",
   workspaceFolder |-> "/workspace",
   extensions |-> getRecommendedExtensions(repoData.techStack),
   forwardPorts |-> <<appPort(repoData.services)>>,
   postCreateCommand |-> getPostCreateCommand(repoData.techStack),
   remoteUser |-> "root"]

generateDevContainer(repoData) ==
  [name |-> repoData.name,
   dockerComposeFile |-> "../docker-compose.yml",
   service |-> "app",
   workspaceFolder |-> "/workspace",
   extensions |-> getRecommendedExtensions(repoData.techStack),
   forwardPorts |-> [i \in 1..Len(repoData.services) |->
                       repoData.services[i].port],
   postCreateCommand |-> getPostCreateCommand(repoData.techStack),
   remoteUser |-> "root"]

\* The keys of the settings object, in insertion order.
generateVSCodeSettings(repoData) ==
  <<"editor.tabSize", "editor.insertSpaces", "files.autoSave",
    "files.autoSaveDelay", "terminal.integrated.cwd">> \o
  pushEach(repoData.techStack, LAMBDA name :
    CASE name = "Node.js" -> <<"typescript.preferences.quoteStyle",
                               "javascript.preferences.quoteStyle">>
      [] name = "Python"  -> <<"python.defaultInterpreterPath",
                               "python.formatting.provider">>
      [] name = "Go"      -> <<"go.toolsManagement.autoUpdate">>
      [] OTHER            -> <<>>)

\* extensions.recommendations
generateVSCodeExtensions(repoData) ==
  pushEach(repoData.techStack, LAMBDA name :
    CASE name = "Node.js" -> <<"ms-vscode.vscode-node-debug2",
                               "esbenp.prettier-vscode",
                               "ms-vscode.vscode-typescript-next">>
      [] name = "Python"  -> <<"ms-python.python", "ms-python.flake8">>
      [] name = "Go"      -> <<"golang.go">>
      [] name = "Java"    -> <<"redhat.java", "vscjava.vscode-java-pack">>
      [] name = "Docker"  -> <<"ms-azuretools.vscode-docker">>
      [] OTHER            -> <<>>)
  \o <<"ms-vscode.vscode-json", "redhat.vscode-yaml", "ms-vscode.vscode-eslint">>

\* repoData.services.includes('Database'): services holds objects, and
\* Array.prototype.includes never finds a string equal to an object.
servicesIncludes(services, str) == FALSE

\* The values LABSPACE.md interpolates and the lists it spells out.
generateReadme(repoData) ==
  [name |-> repoData.name,
   owner |-> repoData.owner,
   techStack |-> [i \in 1..Len(repoData.techStack) |->
                    [name |-> repoData.techStack[i].name,
                     version |-> repoData.techStack[i].version]],
   services |-> [i \in 1..Len(repoData.services) |->
                   [name |-> repoData.services[i].name,
                    url_port |-> repoData.services[i].port]],
   tests |-> IF repoData.hasTests THEN "npm test" ELSE "# No tests detected",
   dockerServices |->
     <<"Application">>
       \o Opt(servicesIncludes(repoData.services, "Database"), "Database")
       \o Opt(servicesIncludes(repoData.services, "Redis"), "Redis"),
   generatedFiles |-> <<"docker-compose.yml", ".devcontainer/", ".vscode/",
                        "scripts/start.sh">>]

StatusLinePort == 3000

\* scripts/start.sh: the blocks appended, each with the file its guard
\* tests, and the port of the final status line.
generateStartupScript(repoData) ==
  [name |-> repoData.name,
   blocks |-> pushEach(repoData.techStack, LAMBDA name :
     CASE name = "Node.js" -> <<[stack |-> "Node.js", guard |-> "package.json",
                                 install |-> "npm install"]>>
       [] name = "Python"  -> <<[stack |-> "Python",
                                 guard |-> "requirements.txt",
                                 install |-> "pip install -r requirements.txt"]>>
       [] name = "Go"      -> <<[stack |-> "Go", guard |-> "go.mod",
                                 install |-> "go mod tidy"]>>
       [] OTHER            -> <<>>),
   status_port |-> StatusLinePort]

\* labspaceFiles[key] = value on a JavaScript object: a new key goes last,
\* a key already there keeps its place.
setKey(obj, key, value) ==
  IF \E i \in DOMAIN obj : obj[i].key = key
  THEN [i \in DOMAIN obj |->
          IF obj[i].key = key THEN [key |-> key, value |-> value] ELSE obj[i]]
  ELSE Append(obj, [key |-> key, value |-> value])

\* Object.keys
keys(obj) == [i \in DOMAIN obj |-> obj[i].key]

\* labspaceFilesOf writing the startup script only when a stack was detected.
labspaceFilesNoScript(repoData) ==
  LET f1 == setKey(<<>>, "docker-compose.yml", generateDockerCompose(repoData))
      f2 == setKey(f1, ".devcontainer/devcontainer.json",
                   generateDevContainer(repoData))
      f3 == setKey(f2, ".vscode/settings.json", generateVSCodeSettings(repoData))
      f4 == setKey(f3, ".vscode/extensions.json",
                   generateVSCodeExtensions(repoData))
      f5 == setKey(f4, "LABSPACE.md", generateReadme(repoData))
  IN  IF repoData.techStack = <<>> THEN f5
      ELSE setKey(f5, "scripts/start.sh", generateStartupScript(repoData))

\* The labspaceFiles object generateLabspace builds.
labspaceFilesOf(repoData) ==
  LET f1 == setKey(<<>>, "docker-compose.yml", generateDockerCompose(repoData))
      f2 == setKey(f1, ".devcontainer/devcontainer.json",
                   generateDevContainer(repoData))
      f3 == setKey(f2, ".vscode/settings.json", generateVSCodeSettings(repoData))
      f4 == setKey(f3, ".vscode/extensions.json",
                   generateVSCodeExtensions(repoData))
      f5 == setKey(f4, "LABSPACE.md", generateReadme(repoData))
  IN  setKey(f5, "scripts/start.sh", generateStartupScript(repoData))

\* generateLabspace: the entries createZipPackage appends to the archive
\* and the value returned.
generateLabspace(repoData, outputPath) ==
  LET labspaceFiles == labspaceFilesOf(repoData)
  IN  [archive |-> labspaceFiles,
       result  |-> [files |-> keys(labspaceFiles), downloadPath |-> outputPath]]

(***************************************************************************)
(* The requests the model sends.                                           *)
(***************************************************************************)
Urls == {u_plain, u_dotgit, u_query, u_gitlab, u_owner_only, u_empty_owner,
         u_blank, undefined}

SeqsUpTo(S, n) == UNION {[1..k -> S] : k \in 0..n}

StackInputs ==
  {[name |-> n, version |-> v_latest] :
     n \in {"Node.js", "Python", "Go", "Docker", "PHP"}}

ServiceInputs ==
  {[name |-> "Database", type |-> "postgres", port |-> DatabasePort],
   [name |-> "Redis", type |-> "redis", port |-> RedisPort],
   [name |-> "Web Server", type |-> "web", port |-> WebPort],
   [name |-> "Web Server", type |-> "web", port |-> 8080]}

\* The profiles a client posts to /api/generate without having analysed:
\* any stack and service lists, the ports derived from the services.
PostedProfiles ==
  {[owner |-> <<"o">>, name |-> <<"r">>, description |-> "description",
    files |-> <<>>, techStack |-> ts, services |-> sv,
    ports |-> extractPorts(sv), hasDocker |-> FALSE, hasTests |-> FALSE,
    estimatedSetupTime |-> estimateSetupTime(ts, sv)] :
     ts \in SeqsUpTo(StackInputs, MaxStackLen),
     sv \in SeqsUpTo(ServiceInputs, MaxServices)}

(***************************************************************************)
(* State.                                                                  *)
(***************************************************************************)
VARIABLES
  tree,          \* the repository on the host: the set of its file paths
  posted,        \* <<p>>: the client posts profile p of its own; else <<>>
  pc,            \* where the /api/analyze handler stands
  githubUrl,     \* req.body.githubUrl
  handle,        \* { owner, repo } of parseGithubUrl
  requests,      \* the requests issued to the host, in order
  files,         \* the listing of fetchFileStructure
  configFiles,   \* configFiles of detectTechStack
  warnings,      \* the file names console.warn reported as not fetched
  analysis,      \* the response of /api/analyze
  repoData,      \* <<req.body.repoData>> of the /api/generate request
  archive,       \* the entries written to the ZIP package
  generated,     \* the response of /api/generate
  subject,       \* the tech stack and services handed to estimateSetupTime
  evaluations,   \* the last two applications of estimateSetupTime
  ui,            \* the state of the LabspaceGenerator component (App.jsx)
  pending,       \* the fetch calls of the component that have not settled,
                 \* with what each sent
  now,           \* Date.now()
  tmpDir,        \* the archives the server wrote to /tmp
  served,        \* <<r>>: the last generation that succeeded; else <<>>
  opened         \* <<u>>: window.open was called with u; else <<>>

\* The state of the API routes, of the estimate's evaluations, of the page.
serverVars == <<tree, posted, pc, githubUrl, handle, requests, files,
                configFiles, warnings, analysis, repoData, archive, generated>>
estimateVars == <<subject, evaluations>>
uiVars == <<ui, pending, now, tmpDir, served, opened>>

vars == <<serverVars, estimateVars, uiVars>>

NoResponse == [status |-> 0, profile |-> <<>>, error |-> <<>>]
NoGenerated == [status |-> 0, success |-> FALSE, downloadUrl |-> <<>>,
                files |-> <<>>, error |-> ""]

\* No evaluation of the estimate under way.
EstimateIdle ==
  /\ subject = [techStack |-> <<>>, services |-> <<>>]
  /\ evaluations = <<>>

\* useState(''), useState(false), useState(false), useState(null),
\* useState(false), useState('')
UiMounted ==
  /\ ui = [githubUrl |-> <<>>, isAnalyzing |-> FALSE, isGenerating |-> FALSE,
           repoData |-> <<>>, labspaceGenerated |-> FALSE, error |-> ""]
  /\ pending = [analyze |-> <<>>, generate |-> <<>>]
  /\ now = 0
  /\ tmpDir = {}
  /\ served = <<>>
  /\ opened = <<>>

\* The routes have handled no request.
ServerListening ==
  /\ pc = "idle"
  /\ githubUrl = undefined
  /\ handle = [owner |-> <<>>, repo |-> <<>>]
  /\ requests = <<>>
  /\ files = <<>>
  /\ configFiles = <<>>
  /\ warnings = <<>>
  /\ analysis = NoResponse
  /\ repoData = <<>>
  /\ archive = <<>>
  /\ generated = NoGenerated

Init ==
  /\ \/ tree \in Trees /\ posted = <<>>
     \/ tree = {} /\ posted \in {<<p>> : p \in PostedProfiles}
  /\ ServerListening
  /\ EstimateIdle
  /\ UiMounted

\* res.status(400).json({ error: error.message }); the message is kept in
\* its parts ("Failed to analyze repository", then the cause).
analyzeFailed(message) ==
  /\ pc' = "done"
  /\ analysis' = [status |-> 400, profile |-> <<>>, error |-> message]

(***************************************************************************)
(* POST /api/analyze, up to the first request of analyzeRepository:        *)
(* parseGithubUrl runs before the try block, so what it throws reaches the *)
(* route's catch as it is.                                                 *)
(***************************************************************************)
PostApiAnalyze ==
  /\ pc = "idle"
  /\ posted = <<>>     \* the routes share no state: a client with a profile
                       \* of its own goes to /api/generate directly
  /\ \E url \in Urls :
       /\ githubUrl' = url
       /\ LET parsed == parseGithubUrl(url)
          IN  IF parsed.threw
              THEN analyzeFailed(<<parsed.message>>) /\ UNCHANGED handle
              ELSE /\ pc' = "fetchRepositoryData"
                   /\ handle' = [owner |-> parsed.owner, repo |-> parsed.repo]
                   /\ UNCHANGED analysis
  /\ UNCHANGED <<tree, posted, requests, files, configFiles, warnings,
                 repoData, archive, generated>>
  /\ UNCHANGED <<estimateVars, uiVars>>

\* await this.fetchRepositoryData(owner, repo): the request resolves or rejects.
FetchRepositoryData ==
  /\ pc = "fetchRepositoryData"
  /\ requests' = Append(requests, [api |-> "repos", path |-> <<>>])
  /\ \E ok \in BOOLEAN :
       IF ok THEN pc' = "fetchFileStructure" /\ UNCHANGED analysis
       ELSE analyzeFailed(<<"Failed to analyze repository", "Request failed">>)
  /\ UNCHANGED <<tree, posted, githubUrl, handle, files, configFiles,
                 warnings, repoData, archive, generated>>
  /\ UNCHANGED <<estimateVars, uiVars>>

\* await this.fetchFileStructure(owner, repo): the requests are issued one
\* after the other; the first to reject (failAt, 0 for none) ends the walk.
FetchFileStructure ==
  /\ pc = "fetchFileStructure"
  /\ LET walk == fetchFileStructure(tree, <<>>)
         asked(n) == [i \in 1..n |->
                        [api |-> "contents", path |-> walk.requests[i]]]
     IN  \E failAt \in 0..Len(walk.requests) :
           IF failAt = 0
           THEN /\ requests' = requests \o asked(Len(walk.requests))
                /\ files' = walk.files
                /\ pc' = "detectTechStack"
                /\ UNCHANGED analysis
           ELSE /\ requests' = requests \o asked(failAt)
                /\ analyzeFailed(<<"Failed to analyze repository",
                                   "Request failed">>)
                /\ UNCHANGED files
  /\ UNCHANGED <<tree, posted, githubUrl, handle, configFiles, warnings,
                 repoData, archive, generated>>
  /\ UNCHANGED <<estimateVars, uiVars>>

\* What fetching the key files of the listing can yield.
OutcomeMaps(listing) ==
  LET present == presentKeyFiles(listing)
      all == UNION {FetchOutcomes(k) : k \in present}
  IN  {o \in [present -> all] : \A k \in present : o[k] \in FetchOutcomes(k)}

\* The rest of analyzeRepository and of the route: detectTechStack with
\* its fetches, detectServices, the profile, res.json; or the catch blocks.
DetectAndRespond ==
  /\ pc = "detectTechStack"
  /\ \E outcome \in OutcomeMaps(files) :
       LET d == detectTechStack(files, outcome)
       IN  /\ requests' = requests \o
                [i \in 1..Len(d.requests) |->
                   [api |-> "contents", path |-> d.requests[i]]]
           /\ warnings' = d.warnings
           /\ configFiles' = d.configFiles
           /\ IF d.threw
              THEN analyzeFailed(<<"Failed to analyze repository", d.message>>)
              ELSE /\ pc' = "done"
                   /\ analysis' =
                        [status |-> 200,
                         profile |-> <<profileOf(handle, files, d.techStack,
                                                 detectServices(files))>>,
                         error |-> <<>>]
  /\ UNCHANGED <<tree, posted, githubUrl, handle, files, repoData, archive,
                 generated>>
  /\ UNCHANGED <<estimateVars, uiVars>>

(***************************************************************************)
(* POST /api/generate.  The body is the profile the client holds: the one  *)
(* /api/analyze answered with, or one of its own; a body without repoData  *)
(* throws at repoData.name and is answered 500.  The Date.now() in the     *)
(* name of the archive is left out here, where one request is handled; the *)
(* page's GenerateSettles carries it.                                      *)
(***************************************************************************)
Bodies ==
  (IF analysis.status = 200 THEN {analysis.profile, <<>>} ELSE {})
    \cup (IF posted # <<>> THEN {posted, <<>>} ELSE {})

PostApiGenerate ==
  /\ generated = NoGenerated
  /\ \E body \in Bodies :
       /\ repoData' = body
       /\ IF body = <<>>
          THEN /\ generated' = [NoGenerated EXCEPT !.status = 500,
                                                   !.error = "TypeError"]
               /\ UNCHANGED archive
          ELSE LET outputPath == <<"/tmp/labspace-", body[1].name, ".zip">>
                   g == generateLabspace(body[1], outputPath)
               IN  /\ archive' = g.archive
                   /\ generated' =
                        [status |-> 200, success |-> TRUE,
                         downloadUrl |-> <<"/download/labspace-",
                                           body[1].name, ".zip">>,
                         files |-> g.result.files, error |-> ""]
  /\ UNCHANGED <<tree, posted, pc, githubUrl, handle, requests, files,
                 configFiles, warnings, analysis>>
  /\ UNCHANGED <<estimateVars, uiVars>>

Next ==
  \/ PostApiAnalyze
  \/ FetchRepositoryData
  \/ FetchFileStructure
  \/ DetectAndRespond
  \/ PostApiGenerate

Spec == Init /\ [][Next]_vars

(***************************************************************************)
(* RepositoryAnalyzer.estimateSetupTime on its own: it is applied to one   *)
(* pair of lists after the other, each with one entry more in one list, or *)
(* with other entries in the same numbers.                                 *)
(***************************************************************************)
\* The longest list handed to estimateSetupTime.
MaxEntries == 10

Fill(n, e) == [i \in 1..n |-> e]

EstimateSubjects ==
  {[techStack |-> Fill(n, t), services |-> Fill(m, s)] :
     n \in 0..MaxEntries, t \in {x \in StackInputs : x.name \in {"Go", "PHP"}},
     m \in 0..MaxEntries, s \in {x \in ServiceInputs : x.port # WebPort}}

EstimateInit ==
  /\ tree = {}
  /\ posted = <<>>
  /\ ServerListening
  /\ subject \in EstimateSubjects
  /\ evaluations = <<>>
  /\ UiMounted

\* this.estimateSetupTime(techStack, services) on the lists of `next`; the
\* last two applications are kept.
evaluate(next) ==
  /\ subject' = next
  /\ evaluations' =
       (IF evaluations = <<>> THEN <<>>
        ELSE <<evaluations[Len(evaluations)]>>)
         \o <<[techStack |-> Len(next.techStack),
               services |-> Len(next.services),
               estimate |-> estimateSetupTime(next.techStack, next.services)]>>
  /\ UNCHANGED <<serverVars, uiVars>>

EstimateFirst == evaluations = <<>> /\ evaluate(subject)

EstimateMoreStack ==
  /\ evaluations # <<>>
  /\ \E next \in EstimateSubjects :
       /\ Len(next.techStack) = Len(subject.techStack) + 1
       /\ Len(next.services) = Len(subject.services)
       /\ evaluate(next)

EstimateMoreServices ==
  /\ evaluations # <<>>
  /\ \E next \in EstimateSubjects :
       /\ Len(next.techStack) = Len(subject.techStack)
       /\ Len(next.services) = Len(subject.services) + 1
       /\ evaluate(next)

EstimateOtherEntries ==
  /\ evaluations # <<>>
  /\ \E next \in EstimateSubjects :
       /\ next # subject
       /\ Len(next.techStack) = Len(subject.techStack)
       /\ Len(next.services) = Len(subject.services)
       /\ evaluate(next)

EstimateNext ==
  \/ EstimateFirst
  \/ EstimateMoreStack
  \/ EstimateMoreServices
  \/ EstimateOtherEntries

EstimateSpec == EstimateInit /\ [][EstimateNext]_vars

(***************************************************************************)
(* The page (App.jsx): the LabspaceGenerator component, its two fetch      *)
(* calls and the download link.  A click is possible when its button is    *)
(* rendered and not disabled; a handler runs to its first await, and what  *)
(* follows the await runs when the fetch settles.  The clock moves between *)
(* the steps.                                                              *)
(***************************************************************************)
\* The last value of Date.now() the model lets the clock reach.
MaxClock == 2

\* What the user types into the URL field.
UiUrls == {u_blank, u_plain, u_gitlab}

\* The profiles /api/analyze answers the page with.
UiProfiles ==
  {p \in PostedProfiles :
     /\ p.services = <<>>
     /\ \A i \in DOMAIN p.techStack : i = 1 /\ p.techStack[i].name = "Go"}

\* githubUrl.match(/github\.com\/([^\/]+)\/([^\/\?]+)/)
githubUrlMatches(url) == \E i \in 1..Len(url) : GithubMatchAt(url, i)

\* labspace-${repoData.name}-${Date.now()}.zip
zipName(name, stamp) == [name |-> name, stamp |-> stamp]

UiInit ==
  /\ tree = {}
  /\ posted = <<>>
  /\ ServerListening
  /\ EstimateIdle
  /\ UiMounted

\* onChange of the URL field: setGithubUrl(e.target.value)
ChangeUrl ==
  /\ \E url \in UiUrls :
       /\ url # ui.githubUrl
       /\ ui' = [ui EXCEPT !.githubUrl = url]
  /\ UNCHANGED <<pending, now, tmpDir, served, opened>>
  /\ UNCHANGED <<serverVars, estimateVars>>

\* q without its i-th element: a fetch that settled is outstanding no more.
without(q, i) == SubSeq(q, 1, i - 1) \o SubSeq(q, i + 1, Len(q))

\* analyzeRepository started by a click that the disabled button lets
\* through (twice at most).
ClickAnalyzeThoughDisabled ==
  /\ Len(pending.analyze) < 2
  /\ IF trim(ui.githubUrl) = <<>>
     THEN /\ ui' = [ui EXCEPT !.error = "Please enter a GitHub URL"]
          /\ UNCHANGED pending
     ELSE IF ~githubUrlMatches(ui.githubUrl)
     THEN /\ ui' = [ui EXCEPT !.isAnalyzing = FALSE,
                              !.repoData = <<>>,
                              !.error = "Invalid GitHub URL format"]
          /\ UNCHANGED pending
     ELSE /\ ui' = [ui EXCEPT !.isAnalyzing = TRUE,
                              !.error = "",
                              !.repoData = <<>>]
          /\ pending' = [pending EXCEPT
                           !.analyze = Append(pending.analyze, ui.githubUrl)]
  /\ UNCHANGED <<now, tmpDir, served, opened>>
  /\ UNCHANGED <<serverVars, estimateVars>>

\* analyzeRepository up to its await; the Analyze button is disabled while
\* isAnalyzing.
ClickAnalyze ==
  /\ ~ui.isAnalyzing
  /\ IF trim(ui.githubUrl) = <<>>
     THEN /\ ui' = [ui EXCEPT !.error = "Please enter a GitHub URL"]
          /\ UNCHANGED pending
     ELSE IF ~githubUrlMatches(ui.githubUrl)
     THEN /\ ui' = [ui EXCEPT !.isAnalyzing = FALSE,
                              !.repoData = <<>>,
                              !.error = "Invalid GitHub URL format"]
          /\ UNCHANGED pending
     ELSE /\ ui' = [ui EXCEPT !.isAnalyzing = TRUE,
                              !.error = "",
                              !.repoData = <<>>]
          /\ pending' = [pending EXCEPT
                           !.analyze = Append(pending.analyze, ui.githubUrl)]
  /\ UNCHANGED <<now, tmpDir, served, opened>>
  /\ UNCHANGED <<serverVars, estimateVars>>

\* A fetch of /api/analyze settles: it rejects, or answers with an error
\* status, or with a profile; then the rest of analyzeRepository runs.
AnalyzeSettles ==
  /\ \E i \in DOMAIN pending.analyze :
       pending' = [pending EXCEPT !.analyze = without(pending.analyze, i)]
  /\ \E outcome \in {"rejected", "not ok", "ok"}, analysisData \in UiProfiles :
       ui' = IF outcome = "rejected"
             THEN [ui EXCEPT !.isAnalyzing = FALSE, !.error = "Failed to fetch"]
             ELSE IF outcome = "not ok"
             THEN [ui EXCEPT !.isAnalyzing = FALSE,
                             !.error = "Failed to analyze repository"]
             ELSE [ui EXCEPT !.isAnalyzing = FALSE,
                             !.repoData = <<analysisData>>]
  /\ UNCHANGED <<now, tmpDir, served, opened>>
  /\ UNCHANGED <<serverVars, estimateVars>>

\* generateLabspace up to its await; the Generate button is rendered with
\* the analysis results and disabled while isGenerating or labspaceGenerated.
ClickGenerate ==
  /\ ui.repoData # <<>>
  /\ ~ui.isGenerating
  /\ ~ui.labspaceGenerated
  /\ ui' = [ui EXCEPT !.isGenerating = TRUE]
  /\ pending' = [pending EXCEPT
                   !.generate = Append(pending.generate, ui.repoData[1])]
  /\ UNCHANGED <<now, tmpDir, served, opened>>
  /\ UNCHANGED <<serverVars, estimateVars>>

\* A fetch of /api/generate settles: it fails, or the route writes the
\* archive named after Date.now() and answers with its downloadUrl; then
\* the rest of generateLabspace runs.
GenerateSettles ==
  /\ \E i \in DOMAIN pending.generate, ok \in BOOLEAN :
       /\ pending' = [pending EXCEPT !.generate = without(pending.generate, i)]
       /\ IF ok
          THEN LET sent == pending.generate[i]
                   outputPath == zipName(sent.name, now)
                   result == generateLabspace(sent, outputPath).result
               IN  /\ tmpDir' = tmpDir \cup {result.downloadPath}
                   /\ served' = <<[repoData |-> sent, downloadUrl |-> outputPath,
                                  files |-> result.files]>>
                   /\ ui' = [ui EXCEPT !.isGenerating = FALSE,
                                       !.labspaceGenerated = TRUE]
          ELSE /\ ui' = [ui EXCEPT !.isGenerating = FALSE,
                                   !.error = "Failed to generate labspace"]
               /\ UNCHANGED <<tmpDir, served>>
  /\ UNCHANGED <<now, opened>>
  /\ UNCHANGED <<serverVars, estimateVars>>

\* downloadLabspace, the Download button being rendered while
\* labspaceGenerated: reading repoData.name of null throws; else the window
\* opens /download/<name>, which the server finds in /tmp or not.
ClickDownload ==
  /\ ui.labspaceGenerated
  /\ opened' =
       IF ui.repoData = <<>>
       THEN <<[threw |-> TRUE, downloadUrl |-> zipName(<<>>, 0),
               found |-> FALSE]>>
       ELSE LET downloadUrl == zipName(ui.repoData[1].name, now)
            IN  <<[threw |-> FALSE, downloadUrl |-> downloadUrl,
                   found |-> downloadUrl \in tmpDir]>>
  /\ UNCHANGED <<ui, pending, now, tmpDir, served>>
  /\ UNCHANGED <<serverVars, estimateVars>>

\* A millisecond passes.
Tick ==
  /\ now < MaxClock
  /\ now' = now + 1
  /\ UNCHANGED <<ui, pending, tmpDir, served, opened>>
  /\ UNCHANGED <<serverVars, estimateVars>>

UiNext ==
  \/ ChangeUrl
  \/ ClickAnalyze
  \/ AnalyzeSettles
  \/ ClickGenerate
  \/ GenerateSettles
  \/ ClickDownload
  \/ Tick

UiSpec == UiInit /\ [][UiNext]_vars

\* The page with every fetch settling: a response or an error arrives.
FairUiSpec ==
  UiSpec /\ WF_vars(AnalyzeSettles) /\ WF_vars(GenerateSettles)

(***************************************************************************)
(* Vocabulary of the properties.                                           *)
(***************************************************************************)
\* The document generated under `key`.
Document(key) == archive[CHOOSE i \in DOMAIN archive : archive[i].key = key].value

\* /api/generate answered a profile with success.
Generated == generated.status = 200 /\ repoData # <<>>

\* The app service blocks of the generated docker-compose.yml.
AppBlocks ==
  SelectSeq(Document("docker-compose.yml").services, LAMBDA s : s.key = "app")

\* The analysis ended in the detection stage: the reference parsed and the
\* repository and its listing were fetched.
DetectionEnded ==
  /\ pc = "done"
  /\ analysis.error \notin {<<"Invalid GitHub URL">>, <<"TypeError">>,
                            <<"Failed to analyze repository", "Request failed">>}

Analysed == pc = "done" /\ analysis.status = 200

Profile == analysis.profile[1]

StackNames(profile) == [i \in 1..Len(profile.techStack) |-> profile.techStack[i].name]

ListedPaths == {files[i].path : i \in DOMAIN files}

SixPaths ==
  <<"docker-compose.yml", ".devcontainer/devcontainer.json",
    ".vscode/settings.json", ".vscode/extensions.json", "LABSPACE.md",
    "scripts/start.sh">>

\* The port of the first web-type service of a profile, 3000 without one.
ResolvedPort(profile) ==
  LET webs == {i \in DOMAIN profile.services : profile.services[i].type = "web"}
  IN  IF webs = {} THEN 3000
      ELSE profile.services[CHOOSE i \in webs : \A j \in webs : i <= j].port

(***************************************************************************)
(* C1.  For every profile, the port of the compose app service's port      *)
(* mapping equals the port of every service-URL line of LABSPACE.md and    *)
(* the port of the final status line of scripts/start.sh.                  *)
(* The generator does not keep this: a URL line carries its own service's  *)
(* port and the status line always says 3000.                              *)
(***************************************************************************)
C1_PortsAgree ==
  Generated =>
    \A a \in DOMAIN AppBlocks :
      LET port == AppBlocks[a].ports[1].host
          guide == Document("LABSPACE.md").services
      IN  /\ AppBlocks[a].ports[1].container = port
          /\ \A i \in DOMAIN guide : guide[i].url_port = port
          /\ Document("scripts/start.sh").status_port = port

(***************************************************************************)
(* C2.  For every profile with a Database service, whatever the tech       *)
(* stack, docker-compose.yml declares exactly the root volume db_data and  *)
(* the depends_on list of the app service contains 'db'.                   *)
(* With an empty tech stack the generator adds no app service at all.      *)
(***************************************************************************)
C2_DatabaseVolumeAndDependency ==
  (Generated /\ hasService(repoData[1].services, "Database")) =>
    /\ Document("docker-compose.yml").volumes = <<"db_data">>
    /\ \E a \in DOMAIN AppBlocks :
         \E d \in DOMAIN AppBlocks[a].depends_on :
           AppBlocks[a].depends_on[d] = "db"

(***************************************************************************)
(* C3.  As claimed: a listing with no recognized manifest file name and no *)
(* path matching a service predicate, whatever other files it holds, gives *)
(* an empty tech stack and an empty service list, and generation from that *)
(* profile answers with exactly six files.                                 *)
(* As amended: the same for listings that also hold no path ending in      *)
(* '.php'.                                                                 *)
(***************************************************************************)
RecognizedManifests ==
  {s_package_json, s_requirements_txt, s_Gemfile, s_go_mod, s_pom_xml,
   s_build_gradle, s_Cargo_toml, s_composer_json, s_pubspec_yaml, s_Dockerfile}

MatchesServicePredicate(f) ==
  \/ \E word \in {s_database, s_db, s_migration, s_redis, s_server, s_app} :
       includes(f.path, word)
  \/ f.name \in {s_index_js, s_main_py, s_app_py}

PlainListing ==
  /\ ListedPaths \cap RecognizedManifests = {}
  /\ \A i \in DOMAIN files : ~MatchesServicePredicate(files[i])

NoPhpSource == \A i \in DOMAIN files : ~endsWith(files[i].path, s_dot_php)

EmptyProfileGenerated ==
  /\ (DetectionEnded =>
        /\ analysis.status = 200
        /\ Profile.techStack = <<>>
        /\ Profile.services = <<>>)
  /\ ((DetectionEnded /\ generated # NoGenerated /\ repoData # <<>>) =>
        /\ generated.status = 200
        /\ generated.files = SixPaths
        /\ keys(archive) = SixPaths)

\* C3 as claimed: '.php' sources allowed in the listing.
C3_PlainListingEmptyProfile_Original == PlainListing => EmptyProfileGenerated

\* C3 as amended: a plain listing without '.php' sources gives the empty
\* profile, and generation from it answers with the six files.
C3_PlainListingEmptyProfile ==
  (PlainListing /\ NoPhpSource) => EmptyProfileGenerated

\* C3: a non-empty plain listing was analysed and its profile generated.
C3_Witness ==
  /\ Analysed
  /\ files # <<>>
  /\ PlainListing
  /\ NoPhpSource
  /\ Generated
  /\ repoData = analysis.profile

C5_AppBlockAlways ==
  Generated =>
    /\ Len(AppBlocks) = 1
    /\ AppBlocks[1].ports = <<[host |-> ResolvedPort(repoData[1]),
                               container |-> ResolvedPort(repoData[1])]>>

(***************************************************************************)
(* C6.  Detection never fails because the content of a manifest is         *)
(* malformed: once the listing is fetched the analysis answers with a      *)
(* profile.                                                                *)
(* JSON.parse of package.json is not guarded, so a malformed package.json  *)
(* ends the analysis in an error.                                          *)
(***************************************************************************)
C6_MalformedManifestTolerated == DetectionEnded => analysis.status = 200

(***************************************************************************)
(* C7.  As claimed: the entries of the tech stack appear in the relative   *)
(* order Node.js, Python, Docker, Java, Go, Ruby, PHP, Rust, .NET,         *)
(* Dart/Flutter.                                                           *)
(* As amended: they appear in the relative order Node.js, Python, Go,      *)
(* Java, Ruby, Rust, PHP, Dart/Flutter, Docker, each at most once.         *)
(***************************************************************************)
ClaimedOrder ==
  <<"Node.js", "Python", "Docker", "Java", "Go", "Ruby", "PHP", "Rust", ".NET",
    "Dart/Flutter">>

BackendOrder ==
  <<"Node.js", "Python", "Go", "Java", "Ruby", "Rust", "PHP", "Dart/Flutter",
    "Docker">>

\* The names are names of `order` and follow one another as they do there.
InOrder(names, order) ==
  /\ \A i \in DOMAIN names : \E r \in DOMAIN order : order[r] = names[i]
  /\ \A i, j \in DOMAIN names :
       i < j => \E r, q \in DOMAIN order :
                  r < q /\ order[r] = names[i] /\ order[q] = names[j]

EntryOf(fileName) ==
  CASE fileName = s_package_json -> "Node.js"
    [] fileName = s_requirements_txt -> "Python"
    [] fileName = s_go_mod -> "Go"
    [] fileName = s_Gemfile -> "Ruby"
    [] fileName = s_Cargo_toml -> "Rust"
    [] fileName = s_pubspec_yaml -> "Dart/Flutter"
    [] OTHER -> "none"

\* C8: an analysis in which a manifest fetch failed answers with a profile
\* that has no entry of that manifest.
C8_FetchFailureTolerated ==
  (pc = "done" /\ warnings # <<>>) =>
    /\ analysis.status = 200
    /\ \A w \in DOMAIN warnings :
         \A i \in DOMAIN Profile.techStack :
           Profile.techStack[i].name # EntryOf(warnings[w])

(***************************************************************************)
(* C9.  For a repository reference that does not match the GitHub URL      *)
(* pattern, analyzeRepository fails before any request to the host is      *)
(* issued, no profile is returned and /api/analyze answers with an error.  *)
(***************************************************************************)
NonGithubUrls == {u_gitlab, u_owner_only, u_empty_owner, u_blank, undefined}

\* C9: a reference that does not match is answered 400, with no request
\* issued and no profile.
C9_InvalidUrlRejected ==
  (pc # "idle" /\ githubUrl \in NonGithubUrls) =>
    /\ pc = "done"
    /\ requests = <<>>
    /\ analysis.status = 400
    /\ analysis.profile = <<>>
    /\ analysis.error # <<>>

\* C9: a gitlab reference to a non-empty repository was rejected.
C9_Witness ==
  /\ pc = "done"
  /\ githubUrl = u_gitlab
  /\ tree # {}
  /\ analysis.status = 400

(***************************************************************************)
(* C10.  For every profile, forwardPorts of devcontainer.json is the ports *)
(* list of the profile, in order; and a listing with requirements.txt      *)
(* (fetched, not empty) and a path containing 'redis' gives a Python entry *)
(* and a Redis service whose port 6379 is among the forwarded ports.       *)
(***************************************************************************)
RedisScenario ==
  /\ Analysed
  /\ s_requirements_txt \in ListedPaths
  /\ s_requirements_txt \in DOMAIN configFiles
  /\ configFiles[s_requirements_txt] # <<>>
  /\ \E i \in DOMAIN files : includes(files[i].path, s_redis)

GoScenario ==
  /\ Analysed
  /\ s_go_mod \in DOMAIN configFiles
  /\ configFiles[s_go_mod] = t_gomod
  /\ p_cmd_server_main_go \in ListedPaths

WebEntries(profile) ==
  {i \in DOMAIN profile.services : profile.services[i].type = "web"}

\* C11: the Go scenario gives Go 1.21, one web service on the web default
\* port, and an app service mapping that port to itself.
C11_GoScenario ==
  GoScenario =>
    /\ Cardinality({i \in DOMAIN Profile.techStack :
                      Profile.techStack[i].name = "Go"}) = 1
    /\ \A i \in DOMAIN Profile.techStack :
         Profile.techStack[i].name = "Go" =>
           Profile.techStack[i].version = <<"1", ".", "2", "1">>
    /\ Cardinality(WebEntries(Profile)) = 1
    /\ \A i \in WebEntries(Profile) : Profile.services[i].port = WebPort
    /\ (Generated /\ repoData = analysis.profile) =>
         /\ Len(AppBlocks) = 1
         /\ AppBlocks[1].ports = <<[host |-> WebPort, container |-> WebPort]>>

\* C11: the two-file Go repository was analysed and its profile generated.
C11_Witness ==
  /\ GoScenario
  /\ ListedPaths = {s_go_mod, p_cmd_server_main_go}
  /\ Generated
  /\ repoData = analysis.profile
  /\ Len(AppBlocks) = 1

(***************************************************************************)
(* C12.  A listing that holds package.json alone, its content              *)
(* {"dependencies":{"express":"^4"}}, gives exactly one stack entry, named *)
(* Node.js, with the runtime dependencies ['express'], no service entry,   *)
(* an empty ports list and the setup-time estimate '1-2 minutes'.          *)
(***************************************************************************)
ExpressScenario ==
  /\ DetectionEnded
  /\ ListedPaths = {s_package_json}
  /\ s_package_json \in DOMAIN configFiles
  /\ configFiles[s_package_json] = t_pkg_express

\* C12: the express scenario is answered with the one-entry Node.js profile
\* without services, estimated at '1-2 minutes'.
C12_ExpressScenario ==
  ExpressScenario =>
    /\ analysis.status = 200
    /\ StackNames(Profile) = <<"Node.js">>
    /\ Profile.techStack[1].dependencies = <<k_express>>
    /\ Profile.services = <<>>
    /\ Profile.ports = <<>>
    /\ Profile.estimatedSetupTime = "1-2 minutes"

\* C12: the express scenario was analysed.
C12_Witness == ExpressScenario /\ Analysed /\ Profile.files = <<s_package_json>>

(***************************************************************************)
(* C13.  The setup-time estimate is monotonic in the two counts: of two    *)
(* applications of estimateSetupTime, the one with at least as many stack  *)
(* entries and at least as many service entries never reports a lower      *)
(* bucket in the order '1-2 minutes', '2-5 minutes', '5-10 minutes',       *)
(* '10+ minutes'; and with the same counts the two report the same bucket, *)
(* whatever the entries.  (Checked under EstimateSpec.)                    *)
(***************************************************************************)
Buckets == <<"1-2 minutes", "2-5 minutes", "5-10 minutes", "10+ minutes">>

BucketRank(estimate) == CHOOSE r \in DOMAIN Buckets : Buckets[r] = estimate

\* C13: over the last two applications, the bucket never goes down when
\* neither count does, and equal counts give equal buckets.
C13_EstimateMonotonic ==
  /\ \A i \in DOMAIN evaluations :
       \E r \in DOMAIN Buckets : Buckets[r] = evaluations[i].estimate
  /\ Len(evaluations) = 2 =>
       LET a == evaluations[1]
           b == evaluations[2]
       IN  /\ (a.techStack <= b.techStack /\ a.services <= b.services) =>
                BucketRank(a.estimate) <= BucketRank(b.estimate)
           /\ (a.techStack = b.techStack /\ a.services = b.services) =>
                a.estimate = b.estimate

\* C13: one service more took the estimate from '5-10 minutes' to
\* '10+ minutes'.
C13_Witness ==
  /\ Len(evaluations) = 2
  /\ evaluations[1].techStack = evaluations[2].techStack
  /\ evaluations[1].services + 1 = evaluations[2].services
  /\ evaluations[1].estimate = "5-10 minutes"
  /\ evaluations[2].estimate = "10+ minutes"

(***************************************************************************)
(* C14.  On the page, whenever labspaceGenerated is true the repoData held *)
(* is not null and is the profile that the generation request that         *)
(* succeeded carried.  (Checked under UiSpec.)                             *)
(* labspaceGenerated is never set back to false, and the Analyze button    *)
(* stays enabled: a later analysis clears or replaces repoData while the   *)
(* 'Labspace Ready' panel still shows.                                     *)
(***************************************************************************)
C14_ReadyPanelHoldsGeneratedProfile ==
  ui.labspaceGenerated =>
    /\ ui.repoData # <<>>
    /\ served # <<>>
    /\ ui.repoData[1] = served[1].repoData

(***************************************************************************)
(* C15.  After a generation that succeeded, the file the page requests     *)
(* from /download/:filename is the archive that generation wrote, the      *)
(* downloadUrl it answered with, whatever time passed before the click.    *)
(* (Checked under UiSpec.)                                                 *)
(* downloadLabspace builds the name from a new Date.now() and never reads  *)
(* the downloadUrl of the answer.                                          *)
(***************************************************************************)
C15_DownloadNamesTheArchive ==
  (opened # <<>> /\ ~opened[1].threw) =>
    /\ served # <<>>
    /\ opened[1].downloadUrl = served[1].downloadUrl

(***************************************************************************)
(* C16.  For every profile, scripts/start.sh holds one install-then-run    *)
(* block for each stack entry of the profile, in profile order, each       *)
(* guarded by the existence of that ecosystem's manifest file.             *)
(* The generator appends a block for the entries named Node.js, Python and *)
(* Go alone: every other entry is passed over in silence.                  *)
(***************************************************************************)
ManifestOf(name) ==
  CASE name = "Node.js" -> "package.json"
    [] name = "Python" -> "requirements.txt"
    [] name = "Go" -> "go.mod"
    [] name = "Ruby" -> "Gemfile"
    [] name = "Rust" -> "Cargo.toml"
    [] name = "PHP" -> "composer.json"
    [] name = "Dart/Flutter" -> "pubspec.yaml"
    [] name = "Java" -> "pom.xml"
    [] OTHER -> "Dockerfile"

\* The blocks of the script are those of the stack entries `names`.
BlocksFollow(names) ==
  LET blocks == Document("scripts/start.sh").blocks
  IN  /\ Len(blocks) = Len(names)
      /\ \A i \in DOMAIN blocks :
           /\ blocks[i].stack = names[i]
           /\ blocks[i].guard = ManifestOf(names[i])

\* C16: the script has a block for every stack entry, in profile order.
C16_StartupBlocks ==
  Generated => BlocksFollow(StackNames(repoData[1]))

(***************************************************************************)
(* C17.  For every stack entry built from package.json or from             *)
(* requirements.txt, the dependencies are the first 8 names of the         *)
(* manifest at most, and the devDependencies the first 5 at most, in       *)
(* manifest order and without version specifiers.                          *)
(* The Python entry keeps up to 10 requirements.                           *)
(***************************************************************************)
\* The package names a requirements.txt of the model declares, in order.
DeclaredRequirements(text) ==
  CASE text = t_req -> <<<<"f", "l", "a", "s", "k">>, <<"r", "e", "d", "i", "s">>>>
    [] text = t_req_many ->
         <<<<"a">>, <<"b">>, <<"c">>, <<"d">>, <<"e">>, <<"f">>, <<"g">>,
           <<"h">>, <<"i">>, <<"j">>, <<"k">>>>
    [] OTHER -> <<>>

\* The first n elements of q, all of q when it has fewer.
Leading(q, n) == [i \in 1..(IF Len(q) < n THEN Len(q) ELSE n) |-> q[i]]

\* C17: at most 8 dependencies and 5 devDependencies, the leading names of
\* the manifest.
C17_DependencyLimits ==
  Analysed =>
    \A i \in DOMAIN Profile.techStack :
      LET entry == Profile.techStack[i]
      IN  /\ entry.name = "Node.js" =>
               LET manifest == JSONparse(configFiles[s_package_json])
               IN  /\ entry.dependencies = Leading(manifest.dependencies, 8)
                   /\ entry.devDependencies
                        = Leading(manifest.devDependencies, 5)
          /\ entry.name = "Python" =>
               entry.dependencies
                 = Leading(DeclaredRequirements(configFiles[s_requirements_txt]),
                           8)

(***************************************************************************)
(* C18.  For every profile, the 'Generated Files' section of LABSPACE.md   *)
(* lists exactly the six paths that generateLabspace produces for that     *)
(* profile.                                                                *)
(* The section is a fixed text of four bullets, two of them directories,   *)
(* and it does not name LABSPACE.md.                                       *)
(***************************************************************************)
C18_GuideListsGeneratedFiles ==
  Generated =>
    LET listed == Document("LABSPACE.md").generatedFiles
    IN  /\ Len(listed) = Len(generated.files)
        /\ Range(listed) = Range(generated.files)
        /\ Range(listed) = Range(keys(archive))

(***************************************************************************)
(* C19.  For every listing, service detection gives at most one entry per  *)
(* kind, in the order database, cache, web server; an entry of a kind      *)
(* always carries the same port (5432, 6379, 3000); and the ports list of  *)
(* the profile is the ports of the services, in service order.             *)
(***************************************************************************)
ServiceKinds == <<"postgres", "redis", "web">>

KindRank(type) == CHOOSE r \in DOMAIN ServiceKinds : ServiceKinds[r] = type

KindPort(type) ==
  CASE type = "postgres" -> 5432
    [] type = "redis" -> 6379
    [] type = "web" -> 3000

\* C19: the services are of the three kinds, each at most once and in the
\* order of ServiceKinds, on their fixed ports, and ports lists their ports.
C19_ServicesOncePerKind ==
  Analysed =>
    LET services == Profile.services
    IN  /\ \A i \in DOMAIN services :
             /\ \E r \in DOMAIN ServiceKinds : ServiceKinds[r] = services[i].type
             /\ services[i].port = KindPort(services[i].type)
        /\ \A i, j \in DOMAIN services :
             i < j => KindRank(services[i].type) < KindRank(services[j].type)
        /\ Len(Profile.ports) = Len(services)
        /\ \A i \in DOMAIN services : Profile.ports[i] = services[i].port

\* C19: a listing matching the three predicates was analysed.
C19_Witness ==
  /\ Analysed
  /\ Len(Profile.services) = 3
  /\ Profile.ports = <<5432, 6379, 3000>>

(***************************************************************************)
(* C20.  For every profile, the service that devcontainer.json names as    *)
(* its target is a service of the docker-compose.yml generated from the    *)
(* same profile.                                                           *)
(* devcontainer.json always names 'app'; with an empty tech stack the      *)
(* compose document has no app service (C5).                               *)
(***************************************************************************)
C20_DevContainerTargetsComposeService ==
  Generated =>
    \E i \in DOMAIN Document("docker-compose.yml").services :
      Document("docker-compose.yml").services[i].key
        = Document(".devcontainer/devcontainer.json").service

(***************************************************************************)
(* C21.  On the page, with the buttons honouring their disabled state, at  *)
(* most one /api/analyze request and at most one /api/generate request are *)
(* outstanding at any time; isAnalyzing and isGenerating are true exactly  *)
(* while such a request is outstanding; and, every fetch settling with a   *)
(* response or an error, a flag that is true eventually returns to false.  *)
(* (Checked under FairUiSpec.)                                             *)
(***************************************************************************)
C21_OneRequestAndFlagsReturn ==
  /\ [](/\ Len(pending.analyze) <= 1
        /\ Len(pending.generate) <= 1
        /\ ui.isAnalyzing <=> pending.analyze # <<>>
        /\ ui.isGenerating <=> pending.generate # <<>>)
  /\ ui.isAnalyzing ~> ~ui.isAnalyzing
  /\ ui.isGenerating ~> ~ui.isGenerating

\* C21: a generation failed and its flag is back to false while an
\* analysis is still outstanding.
C21_Witness ==
  /\ ui.error = "Failed to generate labspace"
  /\ ~ui.isGenerating
  /\ ui.isAnalyzing
  /\ Len(pending.analyze) = 1

(***************************************************************************)
(* C22.  As claimed: for every repository tree, fetchFileStructure ends    *)
(* and never requests the contents of a directory whose path has more than *)
(* 3 segments, so that no file nested below a directory at depth 3 is in   *)
(* the listing.                                                            *)
(* As amended: it ends, requests each directory at most once and none      *)
(* whose path has more than 3 segments, and the listing holds exactly the  *)
(* files that lie in a directory of at most 3 segments and not below a     *)
(* '.git' directory: the files of a directory at depth 3 are listed, those *)
(* of its subdirectories are not.                                          *)
(***************************************************************************)
\* The number of segments of a path; the root has none.
Segments(path) == IF path = <<>> THEN 0 ELSE SplitLength(path)

\* The path of the directory a file lies in, '' for the root.
DirectoryOf(f) ==
  LET slashes == {i \in DOMAIN f : f[i] = "/"}
  IN  IF slashes = {} THEN <<>>
      ELSE SubSeq(f, 1, (CHOOSE i \in slashes : \A j \in slashes : j <= i) - 1)

\* File f lies below a directory named '.git'.
BelowDotGit(f) ==
  LET parts == split(DirectoryOf(f), s_slash)
  IN  DirectoryOf(f) # <<>> /\ \E i \in DOMAIN parts : parts[i] = s_dot_git

\* The directories whose contents were requested, in request order.
DirectoryRequests ==
  SelectSeq(requests, LAMBDA r : r.api = "contents" /\ r.path \notin tree)

\* fetchFileStructure returned its listing.
Listed == pc = "detectTechStack" \/ DetectionEnded

\* No directory of more than 3 segments was requested.
ShallowRequests ==
  \A i \in DOMAIN DirectoryRequests : Segments(DirectoryRequests[i].path) <= 3

\* C22 as claimed: no listed file has a directory at depth 3 above it.
C22_DepthBounded_Original ==
  /\ ShallowRequests
  /\ Listed => \A f \in ListedPaths : Segments(DirectoryOf(f)) < 3

\* C22 as amended: each directory is requested once at most, none deeper
\* than 3 segments, and the listing is the files in such directories.
C22_DepthBounded ==
  /\ ShallowRequests
  /\ \A i, j \in DOMAIN DirectoryRequests :
       DirectoryRequests[i].path = DirectoryRequests[j].path => i = j
  /\ Listed =>
       ListedPaths = {f \in tree : /\ Segments(DirectoryOf(f)) <= 3
                                   /\ ~BelowDotGit(f)}

\* C22: of a tree with a file at depth 3 and one below it, the first was
\* listed and the second was not.
C22_Witness ==
  /\ Listed
  /\ tree = {p_a_b_c_f_txt, p_deep}
  /\ ListedPaths = {p_a_b_c_f_txt}
  /\ Len(DirectoryRequests) = 4
====
